---------------------------- MODULE Spec2Model ----------------------------
(***************************************************************************)
(* Model of the LOCC experiment scripts.                                   *)
(*                                                                         *)
(*   src/src/experiment.py  Run Driver, Correlation Estimator,             *)
(*                          Marker-Erasure Verifier, main script           *)
(*   src/src/analysis.py    Significance Analyzer                          *)
(*                                                                         *)
(* The specifications share the variables:                                 *)
(*   EstimatorSpec  compute_correlation and verify_marker_erasure applied  *)
(*                  to measurement counts drawn by EstimatorInit           *)
(*   AnalysisSpec   the analysis operations applied to a loaded Results    *)
(*                  Record drawn by AnalysisInit                           *)
(*   Spec, LiveSpec run_experiment followed by save_results, against a     *)
(*                  device that returns, raises, or stays silent           *)
(*   ThresholdSpec  the driver's statistical test and the analyzer's       *)
(*                  classification applied to one drawn entry              *)
(*                                                                         *)
(* analysis.py is modelled by the bodies of its functions.  As it stands   *)
(* the file does not compile: line 170, in print_analysis, is an f-string  *)
(* with an unmatched '}', a SyntaxError that stops every function of the   *)
(* file from being run until the line is repaired.                         *)
(*                                                                         *)
(* Numbers.  A correlation is the exact quotient of two integers and is    *)
(* kept as the pair <<numerator, denominator>>.  A standard error          *)
(* 1/sqrt(n) and a significance gap/sqrt(e1^2+e2^2) are non-negative       *)
(* reals kept by their squares, so every comparison is exact.              *)
(***************************************************************************)
EXTENDS Integers, Sequences, FiniteSets, TLC

VARIABLES
    pc,           \* position of the main script / run_experiment
    i,            \* 1-based index into THETA_VALUES of the current iteration
    results,      \* the Results Record being built
    loc,          \* locals of the current loop iteration
    device,       \* the device abstraction: its task and what it returned
    submissions,  \* every device.run call made so far, in order
    printed,      \* the per-angle verdict lines printed so far
    saved,        \* every record written by save_results, in order
    est,          \* EstimatorSpec: inputs and output of the estimator call
    ana           \* AnalysisSpec: the loaded record and the analysis output

vars == <<pc, i, results, loc, device, submissions, printed, saved, est, ana>>

driverVars == <<pc, i, results, loc, device, submissions, printed, saved>>

-----------------------------------------------------------------------------
(* Bounds of the model *)

\* Shots per circuit in the modelled run (the script uses 2000).
MaxShots == 1

\* How many angles of the script's angle list the modelled run covers.
NumAngles == 2

\* Largest number of distinct outcome strings in an estimator input.
MaxKeys == 2

\* Largest count of one outcome string in an estimator input.
MaxCount == 2

-----------------------------------------------------------------------------
(* Experimental parameters, experiment.py 31-39 *)

ALICE_QUBIT == 0

BOB_QUBIT == 1

MARKER_QUBIT == 2

AllThetaValues == <<0, 30, 60, 90, 120, 150, 180>>

THETA_VALUES == SubSeq(AllThetaValues, 1, NumAngles)

N_SHOTS == MaxShots

-----------------------------------------------------------------------------
(* Exact arithmetic *)

Abs(x) == IF x < 0 THEN -x ELSE x

\* Rationals <<n, d>> with d > 0.
RatSub(p, q) == <<p[1] * q[2] - q[1] * p[2], p[2] * q[2]>>

RatAdd(p, q) == <<p[1] * q[2] + q[1] * p[2], p[2] * q[2]>>

\* A plausible slip: the difference taken without abs().
RatSigned(p) == p

RatAbs(p) == <<Abs(p[1]), p[2]>>

RatLess(p, q) == p[1] * q[2] < q[1] * p[2]

RatLeq(p, q) == p[1] * q[2] <= q[1] * p[2]

\* 1 / np.sqrt(n) for n > 0, kept by its square 1/n.
InvSqrt(n) == [square |-> <<1, n>>]

-----------------------------------------------------------------------------
(* Measurement counts: a mapping from outcome bitstrings to counts *)

Bitstrings(w) == [1..w -> {0, 1}]

RECURSIVE SumOver(_, _)
SumOver(f, S) ==
    IF S = {} THEN 0
    ELSE LET x == CHOOSE y \in S : TRUE
         IN  f[x] + SumOver(f, S \ {x})

Total(counts) == SumOver(counts, DOMAIN counts)

\* bitstring[idx] of the source, idx counted from 0.
BitAt(bitstring, idx) == bitstring[idx + 1]

IndexOK(counts, idx) == \A b \in DOMAIN counts : idx + 1 <= Len(b)

-----------------------------------------------------------------------------
(* Correlation Estimator, experiment.py 151-185 *)

\* A plausible slip: the quotient binds tighter than the difference,
\* C = same - different / n_shots.
compute_correlation_precedence(counts, alice_idx, bob_idx, n_shots) ==
    LET keys == DOMAIN counts
        sameKeys == {b \in keys : BitAt(b, alice_idx) = BitAt(b, bob_idx)}
        same == SumOver(counts, sameKeys)
        different == SumOver(counts, keys \ sameKeys)
    IN  IF ~(IndexOK(counts, alice_idx) /\ IndexOK(counts, bob_idx))
        THEN [raised |-> "IndexError", C |-> <<0, 1>>, error |-> InvSqrt(1)]
        ELSE IF n_shots = 0
        THEN [raised |-> "ZeroDivisionError", C |-> <<0, 1>>, error |-> InvSqrt(1)]
        ELSE [raised |-> "none",
              C |-> <<same * n_shots - different, n_shots>>,
              error |-> InvSqrt(n_shots)]

\* A plausible slip: the designated positions are ignored and the first two
\* bits are compared.
compute_correlation_fixed_bits(counts, alice_idx, bob_idx, n_shots) ==
    LET keys == DOMAIN counts
        sameKeys == {b \in keys : BitAt(b, 0) = BitAt(b, 1)}
        same == SumOver(counts, sameKeys)
        different == SumOver(counts, keys \ sameKeys)
    IN  IF ~(IndexOK(counts, alice_idx) /\ IndexOK(counts, bob_idx))
        THEN [raised |-> "IndexError", C |-> <<0, 1>>, error |-> InvSqrt(1)]
        ELSE IF n_shots = 0
        THEN [raised |-> "ZeroDivisionError", C |-> <<0, 1>>, error |-> InvSqrt(1)]
        ELSE [raised |-> "none",
              C |-> <<same - different, n_shots>>,
              error |-> InvSqrt(n_shots)]

\* The loop reads bitstring[alice_idx] and bitstring[bob_idx] of every key
\* (IndexError when a key is too short), then divides by n_shots
\* (ZeroDivisionError when it is 0).  C and error are meaningful only when
\* raised = "none".
compute_correlation(counts, alice_idx, bob_idx, n_shots) ==
    LET keys == DOMAIN counts
        sameKeys == {b \in keys : BitAt(b, alice_idx) = BitAt(b, bob_idx)}
        same == SumOver(counts, sameKeys)
        different == SumOver(counts, keys \ sameKeys)
    IN  IF ~(IndexOK(counts, alice_idx) /\ IndexOK(counts, bob_idx))
        THEN [raised |-> "IndexError", C |-> <<0, 1>>, error |-> InvSqrt(1)]
        ELSE IF n_shots = 0
        THEN [raised |-> "ZeroDivisionError", C |-> <<0, 1>>, error |-> InvSqrt(1)]
        ELSE [raised |-> "none",
              C |-> <<same - different, n_shots>>,
              error |-> InvSqrt(n_shots)]

-----------------------------------------------------------------------------
(* Marker-Erasure Verifier, experiment.py 188-208 *)

\* A plausible slip: the guard on the total is missing.
verify_marker_erasure_unguarded(counts, marker_idx) ==
    LET keys == DOMAIN counts
        zeroKeys == {b \in keys : BitAt(b, marker_idx) = 0}
        marker_zero == SumOver(counts, zeroKeys)
        total == SumOver(counts, keys)
    IN  IF ~IndexOK(counts, marker_idx)
        THEN [raised |-> "IndexError", p |-> <<0, 1>>]
        ELSE IF total = 0
        THEN [raised |-> "ZeroDivisionError", p |-> <<0, 1>>]
        ELSE [raised |-> "none", p |-> <<marker_zero, total>>]

\* marker_zero / total if total > 0 else 0
verify_marker_erasure(counts, marker_idx) ==
    LET keys == DOMAIN counts
        zeroKeys == {b \in keys : BitAt(b, marker_idx) = 0}
        marker_zero == SumOver(counts, zeroKeys)
        total == SumOver(counts, keys)
    IN  IF ~IndexOK(counts, marker_idx)
        THEN [raised |-> "IndexError", p |-> <<0, 1>>]
        ELSE IF total > 0
        THEN [raised |-> "none", p |-> <<marker_zero, total>>]
        ELSE [raised |-> "none", p |-> <<0, 1>>]

-----------------------------------------------------------------------------
(* State at the start of run_experiment, experiment.py 238-255 *)

EmptyMap == [x \in {} |-> 0]

Conditions == <<"standard", "no_reversal", "with_reversal">>

\* The metadata timestamp (datetime.now()) is not modelled.
InitialResults ==
    [metadata |-> [device |-> "DEVICE_ARN",
                   theta_values |-> THETA_VALUES,
                   n_shots |-> N_SHOTS],
     data |-> [theta |-> <<>>,
               C_standard |-> <<>>,
               C_standard_err |-> <<>>,
               C_no_reversal |-> <<>>,
               C_no_reversal_err |-> <<>>,
               C_with_reversal |-> <<>>,
               C_with_reversal_err |-> <<>>],
     raw_counts |-> <<>>]

\* Locals of the loop body before their first assignment.
NoLocals ==
    [C_std |-> <<0, 1>>, C_std_err |-> InvSqrt(1),
     C_no_rev |-> <<0, 1>>, C_no_rev_err |-> InvSqrt(1),
     C_rev |-> <<0, 1>>, C_rev_err |-> InvSqrt(1),
     marker_erased |-> <<0, 1>>,
     raw_counts_theta |-> [theta |-> 0, circuits |-> EmptyMap]]

\* completed counts the tasks whose result the device has returned.
IdleDevice ==
    [state |-> "idle", qubits |-> 0, shots |-> 0, counts |-> EmptyMap,
     completed |-> 0]

\* The device once its result has been taken.
Released(d) == [IdleDevice EXCEPT !.completed = d.completed]

DriverInit ==
    /\ pc = "loop"
    /\ i = 1
    /\ results = InitialResults
    /\ loc = NoLocals
    /\ device = IdleDevice
    /\ submissions = <<>>
    /\ printed = <<>>
    /\ saved = <<>>

NoEstimator == [counts |-> EmptyMap, op |-> "unused", args |-> <<>>, out |-> <<>>]

NoAnalysis == [data |-> <<>>, op |-> "unused", out |-> <<>>]

-----------------------------------------------------------------------------
(* EstimatorSpec: the estimator functions on drawn measurement counts *)

Widths == {2, 3}

\* Mappings over outcome strings of one width, at most MaxKeys keys, each
\* count in 0..MaxCount.
CountsOver(w) ==
    UNION {[S -> 0..MaxCount] :
             S \in {T \in SUBSET Bitstrings(w) : Cardinality(T) <= MaxKeys}}

CountsInputs == UNION {CountsOver(w) : w \in Widths}

Positions == 0..2

ShotArgs == 0..(MaxKeys * MaxCount)

EstimatorInit ==
    /\ DriverInit
    /\ ana = NoAnalysis
    /\ \E c \in CountsInputs :
          est = [counts |-> c, op |-> "none", args |-> <<>>, out |-> <<>>]

CallComputeCorrelation ==
    /\ est.op = "none"
    /\ \E a \in Positions, b \in Positions, n \in ShotArgs :
          est' = [est EXCEPT !.op = "compute_correlation",
                             !.args = <<a, b, n>>,
                             !.out = compute_correlation(est.counts, a, b, n)]
    /\ UNCHANGED <<driverVars, ana>>

CallVerifyMarkerErasure ==
    /\ est.op = "none"
    /\ \E m \in Positions :
          est' = [est EXCEPT !.op = "verify_marker_erasure",
                             !.args = <<m>>,
                             !.out = verify_marker_erasure(est.counts, m)]
    /\ UNCHANGED <<driverVars, ana>>

EstimatorNext == CallComputeCorrelation \/ CallVerifyMarkerErasure

EstimatorSpec == EstimatorInit /\ [][EstimatorNext]_vars

-----------------------------------------------------------------------------
(* Claims about the estimator functions *)

CorrelationCalled == est.op = "compute_correlation"

\* The input of the call is valid: the positions exist in every outcome
\* string, the shot argument is positive and the counts sum to it.
ValidCorrelationInput ==
    /\ CorrelationCalled
    /\ IndexOK(est.counts, est.args[1])
    /\ IndexOK(est.counts, est.args[2])
    /\ est.args[3] > 0
    /\ Total(est.counts) = est.args[3]

\* C1: for counts that are non-negative and sum to n_shots > 0, and any pair
\* of designated positions, compute_correlation returns (without raising) a
\* correlation C with -1 <= C <= 1.
C1_CorrelationInRange ==
    ValidCorrelationInput =>
        /\ est.out.raised = "none"
        /\ RatLeq(<<-1, 1>>, est.out.C)
        /\ RatLeq(est.out.C, <<1, 1>>)

\* C1 witness: a valid call on counts holding both a same-bits and a
\* different-bits outcome has returned.
C1_Witness ==
    /\ ValidCorrelationInput
    /\ est.out.raised = "none"
    /\ \E b \in DOMAIN est.counts :
          /\ est.counts[b] > 0
          /\ BitAt(b, est.args[1]) = BitAt(b, est.args[2])
    /\ \E b \in DOMAIN est.counts :
          /\ est.counts[b] > 0
          /\ BitAt(b, est.args[1]) # BitAt(b, est.args[2])

AllDesignatedBitsEqual ==
    \A b \in DOMAIN est.counts : BitAt(b, est.args[1]) = BitAt(b, est.args[2])

\* C2: when every outcome string has equal bits at the two designated
\* positions and the total equals n_shots, compute_correlation returns a
\* correlation of exactly +1 (e.g. "00" and "11" in equal numbers, positions
\* 0 and 1).
C2_AllSameGivesPlusOne ==
    (ValidCorrelationInput /\ AllDesignatedBitsEqual) =>
        /\ est.out.raised = "none"
        /\ est.out.C[1] = est.out.C[2]
        /\ est.out.C[2] = est.args[3]

\* C2 witness: the end-to-end example scaled to the model's counts, "00" and
\* "11" once each with n_shots = 2 and positions (0, 1), has returned +1.
C2_Witness ==
    /\ ValidCorrelationInput
    /\ AllDesignatedBitsEqual
    /\ DOMAIN est.counts = {<<0, 0>>, <<1, 1>>}
    /\ est.counts[<<0, 0>>] = 1
    /\ est.counts[<<1, 1>>] = 1
    /\ est.args = <<0, 1, 2>>
    /\ est.out.C = <<2, 2>>

MarkerCalled == est.op = "verify_marker_erasure"

\* C3: for every counts mapping and marker position (one that exists in the
\* outcome strings), verify_marker_erasure returns p with 0 <= p <= 1; on an
\* empty mapping, or one whose total is zero, it returns exactly 0 and does
\* not fail with a division by zero.
C3_MarkerProbability ==
    MarkerCalled =>
        /\ est.out.raised # "ZeroDivisionError"
        /\ IndexOK(est.counts, est.args[1]) =>
              /\ est.out.raised = "none"
              /\ RatLeq(<<0, 1>>, est.out.p)
              /\ RatLeq(est.out.p, <<1, 1>>)
              /\ Total(est.counts) = 0 => est.out.p[1] = 0

\* C3 witness: the verifier has returned 0 on the empty mapping.
C3_Witness ==
    /\ MarkerCalled
    /\ est.counts = EmptyMap
    /\ est.out = [raised |-> "none", p |-> <<0, 1>>]

-----------------------------------------------------------------------------
(* Significance Analyzer, analysis.py 50-136 *)

\* Bounds of the loaded records drawn by AnalysisInit.
MaxLen == 2

MaxVal == 3

MaxErr == 1

\* extract_arrays: the seven sequences of data['data'].
extract_arrays(data) == data.data

\* np.where(arrays['theta'] == 90)[0]: the positions holding exactly 90.
Where90(theta) == {j \in 1..Len(theta) : theta[j] = 90}

\* A plausible slip: [0][-1], the last position instead of the first.
Max(S) == CHOOSE x \in S : \A y \in S : y <= x

\* [0][0]: the first of the positions found.
Min(S) == CHOOSE x \in S : \A y \in S : x <= y

\* x / y in float64 arithmetic for x >= 0 given as a rational and y >= 0
\* given by its square: numpy divides by zero without raising, giving inf,
\* or nan for 0/0.  A finite quotient is kept by its square.
Float64Div(x, ySquare) ==
    IF ySquare[1] = 0
    THEN IF x[1] = 0
         THEN [kind |-> "nan", square |-> <<0, 1>>]
         ELSE [kind |-> "inf", square |-> <<0, 1>>]
    ELSE [kind |-> "finite",
          square |-> <<x[1] * x[1] * ySquare[2], x[2] * x[2] * ySquare[1]>>]

\* A plausible slip: the threshold itself counts as indistinguishable.
LessOrEqual2(s) == s.kind = "finite" /\ RatLeq(s.square, <<4, 1>>)

\* s < 2 for a float64 quotient s >= 0: false for inf and for nan.
LessThan2(s) == s.kind = "finite" /\ RatLess(s.square, <<4, 1>>)

\* s > 2: true for inf, false for nan.
GreaterThan2(s) ==
    \/ s.kind = "inf"
    \/ s.kind = "finite" /\ RatLess(<<4, 1>>, s.square)

RaisedAnalysis(what) == [raised |-> what]

\* The entries the analysis reads exist at idx in every array.
RowExists(arrays, idx) ==
    /\ idx <= Len(arrays.C_standard)
    /\ idx <= Len(arrays.C_standard_err)
    /\ idx <= Len(arrays.C_no_reversal)
    /\ idx <= Len(arrays.C_no_reversal_err)
    /\ idx <= Len(arrays.C_with_reversal)
    /\ idx <= Len(arrays.C_with_reversal_err)

\* p_value = 2 * (1 - norm.cdf(|t|)) is kept as the statistic it is the
\* two-sided normal tail of.
TwoSidedTail(t) == [two_sided_tail_of |-> t]

analyze_restoration_failure(data) ==
    LET arrays == extract_arrays(data)
        at90 == Where90(arrays.theta)
        idx_90 == Min(at90)
        C_std == arrays.C_standard[idx_90]
        C_rev == arrays.C_with_reversal[idx_90]
        err_std == arrays.C_standard_err[idx_90]
        err_rev == arrays.C_with_reversal_err[idx_90]
        gap == RatAbs(RatSub(C_std, C_rev))
        combined_err == [square |-> RatAdd(err_std.square, err_rev.square)]
        significance == Float64Div(gap, combined_err.square)
        t_stat == Float64Div(gap, combined_err.square)
    IN  IF at90 = {} \/ ~RowExists(arrays, idx_90)
        THEN RaisedAnalysis("IndexError")
        ELSE [raised |-> "none",
              theta |-> 90,
              C_standard |-> C_std,
              C_with_reversal |-> C_rev,
              gap |-> gap,
              significance_sigma |-> significance,
              t_statistic |-> t_stat,
              p_value |-> TwoSidedTail(t_stat)]

test_erasure_vs_no_erasure(data) ==
    LET arrays == extract_arrays(data)
        at90 == Where90(arrays.theta)
        idx_90 == Min(at90)
        C_no_rev == arrays.C_no_reversal[idx_90]
        C_with_rev == arrays.C_with_reversal[idx_90]
        err_no == arrays.C_no_reversal_err[idx_90]
        err_with == arrays.C_with_reversal_err[idx_90]
        diff == RatAbs(RatSub(C_with_rev, C_no_rev))
        combined_err == [square |-> RatAdd(err_no.square, err_with.square)]
        significance == Float64Div(diff, combined_err.square)
    IN  IF at90 = {} \/ ~RowExists(arrays, idx_90)
        THEN RaisedAnalysis("IndexError")
        ELSE [raised |-> "none",
              C_no_reversal |-> C_no_rev,
              C_with_reversal |-> C_with_rev,
              difference |-> diff,
              significance_sigma |-> significance,
              statistically_same |-> LessThan2(significance)]

\* plot_main_result: the figure is kept as what it shows, the three bars
\* with their error bars and the significance bracket, and the file it is
\* saved as.
plot_main_result(data) ==
    LET arrays == extract_arrays(data)
        at90 == Where90(arrays.theta)
        idx_90 == Min(at90)
        correlations == <<arrays.C_standard[idx_90],
                          arrays.C_no_reversal[idx_90],
                          arrays.C_with_reversal[idx_90]>>
        errors == <<arrays.C_standard_err[idx_90],
                    arrays.C_no_reversal_err[idx_90],
                    arrays.C_with_reversal_err[idx_90]>>
        gap == RatAbs(RatSub(correlations[1], correlations[3]))
        combined_err == [square |-> RatAdd(errors[1].square, errors[3].square)]
        sigma == Float64Div(gap, combined_err.square)
    IN  IF at90 = {} \/ ~RowExists(arrays, idx_90)
        THEN RaisedAnalysis("IndexError")
        ELSE [raised |-> "none",
              correlations |-> correlations,
              errors |-> errors,
              gap |-> gap,
              sigma |-> sigma,
              saved_as |-> "figure_main_result.png"]

-----------------------------------------------------------------------------
(* AnalysisSpec: the analysis operations on a drawn loaded record *)

AngleVals == {0, 90}

ThetaSeqs == UNION {[1..n -> AngleVals] : n \in 0..MaxLen}

\* A stored correlation v and a stored error e, as whole multiples of one
\* quantum (the quantum cancels in every significance).
ValueOf(v) == <<v, 1>>

ErrorOf(e) == [square |-> <<e * e, 1>>]

Rows ==
    [C_standard : {ValueOf(v) : v \in 0..MaxVal},
     C_standard_err : {ErrorOf(e) : e \in 0..MaxErr},
     C_no_reversal : {ValueOf(v) : v \in 0..MaxVal},
     C_no_reversal_err : {ErrorOf(e) : e \in 0..MaxErr},
     C_with_reversal : {ValueOf(v) : v \in 0..MaxVal},
     C_with_reversal_err : {ErrorOf(e) : e \in 0..MaxErr}]

ZeroRow ==
    [C_standard |-> ValueOf(0), C_standard_err |-> ErrorOf(0),
     C_no_reversal |-> ValueOf(0), C_no_reversal_err |-> ErrorOf(0),
     C_with_reversal |-> ValueOf(0), C_with_reversal_err |-> ErrorOf(0)]

\* The loaded document whose angle sequence is th, whose entry at position
\* at is row, and whose other entries are ZeroRow.
LoadedRecord(th, at, row) ==
    LET entry(j) == IF j = at THEN row ELSE ZeroRow
    IN  [data |->
           [theta |-> th,
            C_standard |-> [j \in 1..Len(th) |-> entry(j).C_standard],
            C_standard_err |-> [j \in 1..Len(th) |-> entry(j).C_standard_err],
            C_no_reversal |-> [j \in 1..Len(th) |-> entry(j).C_no_reversal],
            C_no_reversal_err |-> [j \in 1..Len(th) |-> entry(j).C_no_reversal_err],
            C_with_reversal |-> [j \in 1..Len(th) |-> entry(j).C_with_reversal],
            C_with_reversal_err |->
                [j \in 1..Len(th) |-> entry(j).C_with_reversal_err]]]

AnalysisInit ==
    /\ DriverInit
    /\ est = NoEstimator
    /\ \E th \in ThetaSeqs :
          \/ /\ th = <<>>
             /\ ana = [data |-> LoadedRecord(th, 0, ZeroRow),
                       op |-> "none", out |-> <<>>]
          \/ \E at \in 1..Len(th), row \in Rows :
                ana = [data |-> LoadedRecord(th, at, row),
                       op |-> "none", out |-> <<>>]

CallAnalyzeRestorationFailure ==
    /\ ana.op = "none"
    /\ ana' = [ana EXCEPT !.op = "analyze_restoration_failure",
                          !.out = analyze_restoration_failure(ana.data)]
    /\ UNCHANGED <<driverVars, est>>

CallTestErasureVsNoErasure ==
    /\ ana.op = "none"
    /\ ana' = [ana EXCEPT !.op = "test_erasure_vs_no_erasure",
                          !.out = test_erasure_vs_no_erasure(ana.data)]
    /\ UNCHANGED <<driverVars, est>>

CallPlotMainResult ==
    /\ ana.op = "none"
    /\ ana' = [ana EXCEPT !.op = "plot_main_result",
                          !.out = plot_main_result(ana.data)]
    /\ UNCHANGED <<driverVars, est>>

AnalysisNext ==
    \/ CallAnalyzeRestorationFailure
    \/ CallTestErasureVsNoErasure
    \/ CallPlotMainResult

AnalysisSpec == AnalysisInit /\ [][AnalysisNext]_vars

-----------------------------------------------------------------------------
(* Claims about the Significance Analyzer *)

\* The position of the first entry of the loaded angle sequence equal to 90.
First90 == Min(Where90(ana.data.data.theta))

TestErasureReturned ==
    /\ ana.op = "test_erasure_vs_no_erasure"
    /\ ana.out.raised = "none"

RestorationReturned ==
    /\ ana.op = "analyze_restoration_failure"
    /\ ana.out.raised = "none"

\* |C_with_reversal - C_no_reversal| at 90 (a whole number of quanta), and
\* the square of the combined error of the two, read off the loaded record.
ErasureDiff ==
    Abs(ana.data.data.C_with_reversal[First90][1]
        - ana.data.data.C_no_reversal[First90][1])

ErasureCombinedSquare ==
    ana.data.data.C_no_reversal_err[First90].square[1]
    + ana.data.data.C_with_reversal_err[First90].square[1]

RestorationGap ==
    Abs(ana.data.data.C_standard[First90][1]
        - ana.data.data.C_with_reversal[First90][1])

RestorationCombinedSquare ==
    ana.data.data.C_standard_err[First90].square[1]
    + ana.data.data.C_with_reversal_err[First90].square[1]

\* sigma = diff / combined error is a number (finite or infinite) unless it
\* is 0/0.
ErasureSigmaIsNumber == ErasureCombinedSquare > 0 \/ ErasureDiff > 0

\* sigma < 2, for sigma >= 0: sigma is finite and sigma^2 < 4.
ErasureSigmaBelow2 ==
    /\ ErasureCombinedSquare > 0
    /\ ErasureDiff * ErasureDiff < 4 * ErasureCombinedSquare

\* sigma >= 2: sigma is infinite, or finite with sigma^2 >= 4.
ErasureSigmaAtLeast2 ==
    /\ ErasureSigmaIsNumber
    /\ ErasureDiff * ErasureDiff >= 4 * ErasureCombinedSquare

\* C4: test_erasure_vs_no_erasure reports statistically_same = true exactly
\* when the significance is < 2, and false (distinguishable) exactly when it
\* is >= 2, for every significance that is a number; a significance of
\* exactly 2 is reported as distinguishable.
C4_ThresholdClassification ==
    TestErasureReturned =>
        /\ ana.out.statistically_same = ErasureSigmaBelow2
        /\ ErasureSigmaIsNumber =>
              ((ana.out.statistically_same = FALSE) = ErasureSigmaAtLeast2)
        /\ (ErasureCombinedSquare > 0
            /\ ErasureDiff * ErasureDiff = 4 * ErasureCombinedSquare)
              => ana.out.statistically_same = FALSE

\* C4 witness: the classification has been made at a significance of
\* exactly 2.
C4_Witness ==
    /\ TestErasureReturned
    /\ ErasureCombinedSquare > 0
    /\ ErasureDiff * ErasureDiff = 4 * ErasureCombinedSquare
    /\ ana.out.statistically_same = FALSE

\* C5: when the combined error of a gap test is zero, the analyzer signals
\* an undefined result instead of dividing the gap by it.
C5_ZeroCombinedErrorHandled ==
    /\ (RestorationReturned /\ RestorationCombinedSquare = 0)
          => ana.out.significance_sigma.kind = "undefined"
    /\ (TestErasureReturned /\ ErasureCombinedSquare = 0)
          => ana.out.significance_sigma.kind = "undefined"

\* What the code does there: the division is carried out and its float64
\* result, inf or nan, is returned as the significance.
C5_DivisionCarriedOut ==
    /\ (RestorationReturned /\ RestorationCombinedSquare = 0)
          => ana.out.significance_sigma.kind \in {"inf", "nan"}
    /\ (TestErasureReturned /\ ErasureCombinedSquare = 0)
          => ana.out.significance_sigma.kind \in {"inf", "nan"}

\* The loaded record with the (value, error) pair of the standard condition
\* and that of the with-reversal condition exchanged: the two inputs of the
\* restoration gap test in the other order.
SwappedRestorationInputs(data) ==
    [data |-> [data.data EXCEPT
                  !.C_standard = data.data.C_with_reversal,
                  !.C_standard_err = data.data.C_with_reversal_err,
                  !.C_with_reversal = data.data.C_standard,
                  !.C_with_reversal_err = data.data.C_standard_err]]

\* Likewise for the two inputs of the erasure-vs-no-erasure gap test.
SwappedErasureInputs(data) ==
    [data |-> [data.data EXCEPT
                  !.C_no_reversal = data.data.C_with_reversal,
                  !.C_no_reversal_err = data.data.C_with_reversal_err,
                  !.C_with_reversal = data.data.C_no_reversal,
                  !.C_with_reversal_err = data.data.C_no_reversal_err]]

SameRational(p, q) == p[1] * q[2] = q[1] * p[2]

SameQuotient(s, t) == s.kind = t.kind /\ SameRational(s.square, t.square)

\* C11: the gap test is symmetric in its two (value, error) inputs: with a
\* non-zero combined error, the gap, the significance and the p-value that
\* analyze_restoration_failure computes from ((v1, e1), (v2, e2)) equal those
\* it computes from ((v2, e2), (v1, e1)); the same holds for the difference,
\* the significance and the classification of test_erasure_vs_no_erasure.
C11_GapTestSymmetric ==
    /\ (RestorationReturned /\ RestorationCombinedSquare > 0) =>
          LET swapped ==
                  analyze_restoration_failure(SwappedRestorationInputs(ana.data))
          IN  /\ swapped.raised = "none"
              /\ SameRational(ana.out.gap, swapped.gap)
              /\ SameQuotient(ana.out.significance_sigma,
                              swapped.significance_sigma)
              /\ SameQuotient(ana.out.p_value.two_sided_tail_of,
                              swapped.p_value.two_sided_tail_of)
    /\ (TestErasureReturned /\ ErasureCombinedSquare > 0) =>
          LET swapped ==
                  test_erasure_vs_no_erasure(SwappedErasureInputs(ana.data))
          IN  /\ swapped.raised = "none"
              /\ SameRational(ana.out.difference, swapped.difference)
              /\ SameQuotient(ana.out.significance_sigma,
                              swapped.significance_sigma)
              /\ ana.out.statistically_same = swapped.statistically_same

\* C11 witness: the restoration test has returned for two inputs that differ
\* in value and in error, so that swapping them changes the record.
C11_Witness ==
    /\ RestorationReturned
    /\ RestorationCombinedSquare > 0
    /\ RestorationGap > 0
    /\ ana.data.data.C_standard_err[First90]
          # ana.data.data.C_with_reversal_err[First90]
    /\ ana.out.significance_sigma.kind = "finite"

\* The loaded angle sequence holds no entry equal to 90.
No90 == \A j \in 1..Len(ana.data.data.theta) : ana.data.data.theta[j] # 90

\* The position of the first entry equal to 90, by the entries before it.
FirstOccurrenceOf90 ==
    CHOOSE j \in 1..Len(ana.data.data.theta) :
        /\ ana.data.data.theta[j] = 90
        /\ \A k \in 1..(j - 1) : ana.data.data.theta[k] # 90

AnalysisOperations ==
    {"analyze_restoration_failure", "test_erasure_vs_no_erasure",
     "plot_main_result"}

\* The gap test on the two (value, error) pairs found at position f.
GapAt(C_a, C_b, f) == RatAbs(RatSub(C_a[f], C_b[f]))

SigmaAt(C_a, err_a, C_b, err_b, f) ==
    Float64Div(GapAt(C_a, C_b, f), RatAdd(err_a[f].square, err_b[f].square))

\* C12: when the loaded angle sequence holds no entry equal to 90, each of
\* analyze_restoration_failure, test_erasure_vs_no_erasure and
\* plot_main_result ends in an uncaught IndexError and yields nothing; when
\* it holds one, every correlation and error the operation uses is the one
\* at the first position holding 90.
C12_LookupAt90 ==
    LET d == ana.data.data
        f == FirstOccurrenceOf90
    IN  /\ (ana.op \in AnalysisOperations /\ No90)
              => ana.out = [raised |-> "IndexError"]
        /\ (ana.op \in AnalysisOperations /\ ~No90)
              => ana.out.raised = "none"
        /\ (ana.op = "analyze_restoration_failure" /\ ~No90) =>
              /\ ana.out.C_standard = d.C_standard[f]
              /\ ana.out.C_with_reversal = d.C_with_reversal[f]
              /\ ana.out.gap = GapAt(d.C_standard, d.C_with_reversal, f)
              /\ ana.out.significance_sigma
                    = SigmaAt(d.C_standard, d.C_standard_err,
                              d.C_with_reversal, d.C_with_reversal_err, f)
        /\ (ana.op = "test_erasure_vs_no_erasure" /\ ~No90) =>
              /\ ana.out.C_no_reversal = d.C_no_reversal[f]
              /\ ana.out.C_with_reversal = d.C_with_reversal[f]
              /\ ana.out.difference
                    = GapAt(d.C_with_reversal, d.C_no_reversal, f)
              /\ ana.out.significance_sigma
                    = SigmaAt(d.C_no_reversal, d.C_no_reversal_err,
                              d.C_with_reversal, d.C_with_reversal_err, f)
        /\ (ana.op = "plot_main_result" /\ ~No90) =>
              /\ ana.out.correlations
                    = <<d.C_standard[f], d.C_no_reversal[f],
                        d.C_with_reversal[f]>>
              /\ ana.out.errors
                    = <<d.C_standard_err[f], d.C_no_reversal_err[f],
                        d.C_with_reversal_err[f]>>
              /\ ana.out.sigma
                    = SigmaAt(d.C_standard, d.C_standard_err,
                              d.C_with_reversal, d.C_with_reversal_err, f)

\* C12 witness: plot_main_result has drawn its bars from a record holding 90
\* twice, with a different standard correlation at the later position.
C12_Witness ==
    /\ ana.op = "plot_main_result"
    /\ ana.data.data.theta = <<90, 90>>
    /\ ana.data.data.C_standard[1] # ana.data.data.C_standard[2]
    /\ ana.out.raised = "none"
    /\ ana.out.correlations[1] = ana.data.data.C_standard[1]

\* The other half of the C12 case: an operation has ended in IndexError on a
\* non-empty angle sequence without 90.
C12_RaisedWithout90 ==
    /\ ana.op \in AnalysisOperations
    /\ ana.data.data.theta # <<>>
    /\ No90
    /\ ana.out = [raised |-> "IndexError"]

-----------------------------------------------------------------------------
(* The device abstraction: device.run(circuit, shots) and task.result() *)

\* The outcome strings the modelled device reports for a circuit measuring
\* w qubits: one with equal Alice and Bob bits and marker 0, one with
\* different bits and marker 1.
ObservedOutcomes(w) ==
    IF w = 2 THEN {<<0, 0>>, <<0, 1>>} ELSE {<<0, 0, 0>>, <<1, 0, 1>>}

\* result.measurement_counts: every outcome observed at least once, the
\* counts summing to the shots the task was run with.
MeasurementCounts(w, shots) ==
    {h \in UNION {[S -> 1..shots] : S \in SUBSET ObservedOutcomes(w)} :
        Total(h) = shots}

\* A plausible slip: the result is read without waiting for the task.
ResultNotAwaited == device.state \in {"running", "returned"}

\* task.result() blocks until the device has returned.
ResultReady == device.state = "returned"

\* The device finishes the running task and returns its counts.
DeviceReturns ==
    /\ device.state = "running"
    /\ \E h \in MeasurementCounts(device.qubits, device.shots) :
          device' = [device EXCEPT !.state = "returned", !.counts = h,
                                   !.completed = @ + 1]
    /\ UNCHANGED <<pc, i, results, loc, submissions, printed, saved, est, ana>>

\* A plausible slip: the failed circuit is submitted again.
SubmissionRetried ==
    /\ device.state = "running"
    /\ submissions' = Append(submissions, submissions[Len(submissions)])
    /\ UNCHANGED <<pc, i, results, loc, device, printed, saved, est, ana>>

\* A plausible slip: the angles collected so far are written out before the
\* failure ends the script.
SubmissionFailsAfterCheckpoint ==
    /\ device.state = "running"
    /\ device' = [device EXCEPT !.state = "raised"]
    /\ pc' = "crashed"
    /\ saved' = Append(saved, results)
    /\ UNCHANGED <<i, results, loc, submissions, printed, est, ana>>

\* The submission fails: the exception is caught nowhere and ends the script.
SubmissionFails ==
    /\ device.state = "running"
    /\ device' = [device EXCEPT !.state = "raised"]
    /\ pc' = "crashed"
    /\ UNCHANGED <<i, results, loc, submissions, printed, saved, est, ana>>

-----------------------------------------------------------------------------
(* Run Driver, experiment.py 214-347 *)

\* The qubits add_measurements is given for each condition.
MeasuredQubits(condition) ==
    IF condition = "standard"
    THEN <<ALICE_QUBIT, BOB_QUBIT>>
    ELSE <<ALICE_QUBIT, BOB_QUBIT, MARKER_QUBIT>>

\* A plausible slip: the task is run with one shot fewer than N_SHOTS.
SubmitFewerShots(condition) ==
    /\ device' = [device EXCEPT !.state = "running",
                                 !.qubits = Len(MeasuredQubits(condition)),
                                 !.shots = N_SHOTS - 1,
                                 !.counts = EmptyMap]
    /\ submissions' = Append(submissions,
                             [theta |-> THETA_VALUES[i],
                              condition |-> condition,
                              qubits |-> MeasuredQubits(condition),
                              shots |-> N_SHOTS - 1])

\* task = device.run(circuit, shots=N_SHOTS) for the circuit of one
\* condition at the current angle.
Submit(condition) ==
    /\ device' = [device EXCEPT !.state = "running",
                                 !.qubits = Len(MeasuredQubits(condition)),
                                 !.shots = N_SHOTS,
                                 !.counts = EmptyMap]
    /\ submissions' = Append(submissions,
                             [theta |-> THETA_VALUES[i],
                              condition |-> condition,
                              qubits |-> MeasuredQubits(condition),
                              shots |-> N_SHOTS])

\* The statistical test printed for each angle, experiment.py 337-345.
RestorationVerdict(C_std, C_std_err, C_rev, C_rev_err) ==
    LET gap == RatAbs(RatSub(C_std, C_rev))
        combined_err == [square |-> RatAdd(C_std_err.square, C_rev_err.square)]
        significance == Float64Div(gap, combined_err.square)
    IN  IF GreaterThan2(significance)
        THEN "Restoration FAILED"
        ELSE "Restoration successful"

\* One entry of raw_counts_theta['circuits'].
CircuitEntry(counts, r) == [counts |-> counts, C |-> r.C, C_err |-> r.error]

\* Loop head and condition 1: raw_counts_theta is created and the standard
\* Bell circuit submitted, experiment.py 262-275.
SubmitStandard ==
    /\ pc = "loop"
    /\ i <= Len(THETA_VALUES)
    /\ loc' = [loc EXCEPT !.raw_counts_theta =
                   [theta |-> THETA_VALUES[i], circuits |-> EmptyMap]]
    /\ Submit("standard")
    /\ pc' = "await_standard"
    /\ UNCHANGED <<i, results, printed, saved, est, ana>>

\* experiment.py 276-285
ResultStandard ==
    /\ pc = "await_standard"
    /\ ResultReady
    /\ LET counts == device.counts
           r == compute_correlation(counts, ALICE_QUBIT, BOB_QUBIT, N_SHOTS)
       IN  IF r.raised # "none"
           THEN pc' = "crashed" /\ loc' = loc
           ELSE /\ loc' = [loc EXCEPT
                       !.C_std = r.C,
                       !.C_std_err = r.error,
                       !.raw_counts_theta.circuits =
                           @ @@ ("standard" :> CircuitEntry(counts, r))]
                /\ pc' = "run_no_reversal"
    /\ device' = Released(device)
    /\ UNCHANGED <<i, results, submissions, printed, saved, est, ana>>

\* experiment.py 287-291
SubmitNoReversal ==
    /\ pc = "run_no_reversal"
    /\ Submit("no_reversal")
    /\ pc' = "await_no_reversal"
    /\ UNCHANGED <<i, results, loc, printed, saved, est, ana>>

\* experiment.py 292-301
ResultNoReversal ==
    /\ pc = "await_no_reversal"
    /\ ResultReady
    /\ LET counts == device.counts
           r == compute_correlation(counts, ALICE_QUBIT, BOB_QUBIT, N_SHOTS)
       IN  IF r.raised # "none"
           THEN pc' = "crashed" /\ loc' = loc
           ELSE /\ loc' = [loc EXCEPT
                       !.C_no_rev = r.C,
                       !.C_no_rev_err = r.error,
                       !.raw_counts_theta.circuits =
                           @ @@ ("no_reversal" :> CircuitEntry(counts, r))]
                /\ pc' = "run_with_reversal"
    /\ device' = Released(device)
    /\ UNCHANGED <<i, results, submissions, printed, saved, est, ana>>

\* experiment.py 303-307
SubmitWithReversal ==
    /\ pc = "run_with_reversal"
    /\ Submit("with_reversal")
    /\ pc' = "await_with_reversal"
    /\ UNCHANGED <<i, results, loc, printed, saved, est, ana>>

\* A plausible slip: the raw counts of the angle are not appended.
StoreResultsWithoutRawCounts(res, l) ==
    [res EXCEPT
        !.data.theta = Append(@, l.raw_counts_theta.theta),
        !.data.C_standard = Append(@, l.C_std),
        !.data.C_standard_err = Append(@, l.C_std_err),
        !.data.C_no_reversal = Append(@, l.C_no_rev),
        !.data.C_no_reversal_err = Append(@, l.C_no_rev_err),
        !.data.C_with_reversal = Append(@, l.C_rev),
        !.data.C_with_reversal_err = Append(@, l.C_rev_err)]

\* "Store results", experiment.py 321-329: the eight appends, from the
\* locals l of the iteration (raw_counts_theta.theta is theta_deg).
StoreResults(res, l) ==
    [res EXCEPT
        !.data.theta = Append(@, l.raw_counts_theta.theta),
        !.data.C_standard = Append(@, l.C_std),
        !.data.C_standard_err = Append(@, l.C_std_err),
        !.data.C_no_reversal = Append(@, l.C_no_rev),
        !.data.C_no_reversal_err = Append(@, l.C_no_rev_err),
        !.data.C_with_reversal = Append(@, l.C_rev),
        !.data.C_with_reversal_err = Append(@, l.C_rev_err),
        !.raw_counts = Append(@, l.raw_counts_theta)]

\* The locals after the third result: C_rev, C_rev_err, marker_erased and
\* the with_reversal entry of raw_counts_theta, experiment.py 309-319.
WithReversalLocals(l, counts) ==
    LET r == compute_correlation(counts, ALICE_QUBIT, BOB_QUBIT, N_SHOTS)
        m == verify_marker_erasure(counts, MARKER_QUBIT)
    IN  [l EXCEPT
            !.C_rev = r.C,
            !.C_rev_err = r.error,
            !.marker_erased = m.p,
            !.raw_counts_theta.circuits =
                @ @@ ("with_reversal" :>
                        [counts |-> counts, C |-> r.C,
                         C_err |-> r.error, marker_P0 |-> m.p])]

\* Either estimator call of the third condition raises.
WithReversalRaises(counts) ==
    \/ compute_correlation(counts, ALICE_QUBIT, BOB_QUBIT, N_SHOTS).raised # "none"
    \/ verify_marker_erasure(counts, MARKER_QUBIT).raised # "none"

\* experiment.py 308-345: the third result, the marker check, the store,
\* the printed verdict, and the step to the next angle.
ResultWithReversal ==
    /\ pc = "await_with_reversal"
    /\ ResultReady
    /\ IF WithReversalRaises(device.counts)
       THEN /\ pc' = "crashed"
            /\ UNCHANGED <<i, results, loc, printed>>
       ELSE /\ loc' = WithReversalLocals(loc, device.counts)
            /\ results' = StoreResults(results, loc')
            /\ printed' = Append(printed,
                             [theta |-> THETA_VALUES[i],
                              verdict |-> RestorationVerdict(
                                  loc'.C_std, loc'.C_std_err,
                                  loc'.C_rev, loc'.C_rev_err)])
            /\ i' = i + 1
            /\ pc' = "loop"
    /\ device' = Released(device)
    /\ UNCHANGED <<submissions, saved, est, ana>>

\* The loop is exhausted: return results, experiment.py 347 and 383.
ReturnResults ==
    /\ pc = "loop"
    /\ i > Len(THETA_VALUES)
    /\ pc' = "returned"
    /\ UNCHANGED <<i, results, loc, device, submissions, printed, saved, est, ana>>

\* save_results(results, filename), experiment.py 350-354 and 385-388.
save_results ==
    /\ pc = "returned"
    /\ saved' = Append(saved, results)
    /\ pc' = "done"
    /\ UNCHANGED <<i, results, loc, device, submissions, printed, est, ana>>

DriverStep ==
    \/ SubmitStandard
    \/ ResultStandard
    \/ SubmitNoReversal
    \/ ResultNoReversal
    \/ SubmitWithReversal
    \/ ResultWithReversal
    \/ ReturnResults
    \/ save_results

Init == DriverInit /\ est = NoEstimator /\ ana = NoAnalysis

Next == DriverStep \/ DeviceReturns \/ SubmissionFails

Spec == Init /\ [][Next]_vars

\* The script runs on while it has a step to take, and the device
\* eventually ends every task it was given.
LiveSpec == Spec /\ WF_vars(DriverStep) /\ WF_vars(DeviceReturns)

-----------------------------------------------------------------------------
(* Claims about the Run Driver *)

\* The number of angles whose results have been stored.
Processed == Len(results.data.theta)

\* The run is between two iterations of the angle loop, or past the loop.
BetweenIterations == pc \in {"loop", "returned", "done"}

RunComplete == pc \in {"returned", "done"}

\* C6: between angle iterations the seven sequences of the record's data and
\* raw_counts all have the same length k, the number of angles processed so
\* far, and theta is the first k angles of the angle list in order; when the
\* run is complete k is the length of the angle list.
C6_ParallelSequences ==
    BetweenIterations =>
        /\ Processed = i - 1
        /\ Len(results.data.C_standard) = Processed
        /\ Len(results.data.C_standard_err) = Processed
        /\ Len(results.data.C_no_reversal) = Processed
        /\ Len(results.data.C_no_reversal_err) = Processed
        /\ Len(results.data.C_with_reversal) = Processed
        /\ Len(results.data.C_with_reversal_err) = Processed
        /\ Len(results.raw_counts) = Processed
        /\ Processed <= Len(THETA_VALUES)
        /\ results.data.theta = SubSeq(THETA_VALUES, 1, Processed)
        /\ RunComplete => Processed = Len(THETA_VALUES)

\* C6 witness: the run stands between the first and the second iteration
\* with one angle stored.
C6_Witness ==
    /\ pc = "loop"
    /\ i = 2
    /\ Processed = 1
    /\ Len(results.raw_counts) = 1

\* The k-th submission of a complete run: angle by angle, and within an
\* angle reference, forward-only, forward+reverse.
ExpectedSubmission(k) ==
    [theta |-> THETA_VALUES[((k - 1) \div 3) + 1],
     condition |-> Conditions[((k - 1) % 3) + 1]]

\* C7: the device receives, angle by angle in list order, exactly the three
\* submissions reference, forward-only, forward+reverse; a submission is
\* made only after every earlier one has returned its result; no circuit is
\* submitted twice for an angle; a complete run makes 3 x |angle list|
\* submissions.
C7_SubmissionOrder ==
    /\ Len(submissions) <= 3 * Len(THETA_VALUES)
    /\ \A k \in 1..Len(submissions) :
          /\ submissions[k].theta = ExpectedSubmission(k).theta
          /\ submissions[k].condition = ExpectedSubmission(k).condition
    /\ Len(submissions) <= device.completed + 1
    /\ RunComplete => Len(submissions) = 3 * Len(THETA_VALUES)

\* C7 witness: a complete run has made all its submissions.
C7_Witness ==
    /\ RunComplete
    /\ Len(submissions) = 3 * Len(THETA_VALUES)
    /\ device.completed = 3 * Len(THETA_VALUES)

\* C8: save_results runs at most once, and only with the record of a run
\* that processed every angle; after a failed submission nothing is ever
\* written, so no partial record is persisted.
C8_NoPartialSave ==
    /\ Len(saved) <= 1
    /\ saved # <<>> =>
          /\ pc = "done"
          /\ saved[1] = results
          /\ Len(saved[1].data.theta) = Len(THETA_VALUES)
          /\ Len(saved[1].raw_counts) = Len(THETA_VALUES)
    /\ pc = "crashed" => saved = <<>>

\* C8 witness: a submission failed after an angle had been collected, and
\* nothing was written.
C8_Witness ==
    /\ pc = "crashed"
    /\ device.state = "raised"
    /\ Processed >= 1
    /\ saved = <<>>

\* C9: if every submission returns a result, the run reaches its terminal
\* state with every angle processed; and while a submission has not
\* returned, the run does not move: no step of the script is taken, nothing
\* is stored and nothing further is submitted.
C9_TerminatesUnlessBlocked ==
    /\ ([](pc # "crashed")) => <>(RunComplete /\ Processed = Len(THETA_VALUES))
    /\ [][device.state = "running" =>
            (pc' \in {pc, "crashed"} /\ i' = i /\ results' = results
             /\ submissions' = submissions /\ saved' = saved)]_vars

\* C9 witness: the terminal state of a run in which every submission
\* returned.
C9_Witness ==
    /\ RunComplete
    /\ Processed = Len(THETA_VALUES)
    /\ device.completed = 3 * Len(THETA_VALUES)
    /\ device.state = "idle"

\* The histograms stored for one angle.
StoredHistograms(entry) ==
    {entry.circuits[c].counts : c \in DOMAIN entry.circuits}

-----------------------------------------------------------------------------
(* ThresholdSpec: the driver's per-angle statistical test and the          *)
(* analyzer's classification, applied to one drawn entry at 90             *)

\* One stored entry: the values and errors of the three conditions at 90.
ThresholdInit ==
    /\ DriverInit
    /\ est = NoEstimator
    /\ \E row \in Rows :
          ana = [data |-> LoadedRecord(<<90>>, 1, row),
                 op |-> "none", out |-> <<>>]

\* experiment.py 337-345 on the entry's standard and with-reversal pairs,
\* the four values the driver stores for the angle it has just tested.
CallStatisticalTest ==
    /\ ana.op = "none"
    /\ ana' = [ana EXCEPT
                  !.op = "statistical_test",
                  !.out = [raised |-> "none",
                           verdict |-> RestorationVerdict(
                                           ana.data.data.C_standard[1],
                                           ana.data.data.C_standard_err[1],
                                           ana.data.data.C_with_reversal[1],
                                           ana.data.data.C_with_reversal_err[1])]]
    /\ UNCHANGED <<driverVars, est>>

ThresholdNext == CallStatisticalTest \/ CallTestErasureVsNoErasure

ThresholdSpec == ThresholdInit /\ [][ThresholdNext]_vars

StatisticalTestDone == ana.op = "statistical_test"

\* The significance of the driver's test is a number unless it is 0/0.
RestorationSigmaIsNumber == RestorationCombinedSquare > 0 \/ RestorationGap > 0

RestorationSigmaBelow2 ==
    /\ RestorationCombinedSquare > 0
    /\ RestorationGap * RestorationGap < 4 * RestorationCombinedSquare

RestorationSigmaAtLeast2 ==
    /\ RestorationSigmaIsNumber
    /\ RestorationGap * RestorationGap >= 4 * RestorationCombinedSquare

RestorationSigmaExactly2 ==
    /\ RestorationCombinedSquare > 0
    /\ RestorationGap * RestorationGap = 4 * RestorationCombinedSquare

\* The no-reversal pair of the entry equals its standard pair, so that the
\* analyzer's erasure test sees the significance the driver's test sees.
SameSignificance ==
    /\ ana.data.data.C_no_reversal[1] = ana.data.data.C_standard[1]
    /\ ana.data.data.C_no_reversal_err[1] = ana.data.data.C_standard_err[1]

C13_AgreesExceptAtThreshold ==
    StatisticalTestDone =>
        /\ ana.out.verdict \in {"Restoration FAILED", "Restoration successful"}
        /\ (RestorationSigmaIsNumber /\ ~RestorationSigmaExactly2) =>
              /\ (ana.out.verdict = "Restoration FAILED")
                    = RestorationSigmaAtLeast2
              /\ SameSignificance =>
                    ((ana.out.verdict = "Restoration successful")
                       = test_erasure_vs_no_erasure(ana.data).statistically_same)
        /\ RestorationSigmaExactly2 =>
              /\ ana.out.verdict = "Restoration successful"
              /\ SameSignificance =>
                    ~test_erasure_vs_no_erasure(ana.data).statistically_same

\* The driver's test has been applied at a significance of exactly 2, to an
\* entry the analyzer's test sees at the same significance.
C13_AtThreshold ==
    /\ StatisticalTestDone
    /\ RestorationSigmaExactly2
    /\ SameSignificance

=============================================================================
